---- MODULE Spec2Model ----
(***************************************************************************)
(* MAKER framework hooks: first-to-ahead-by-K voting (check_winner.py)     *)
(* and the session execution ledger (maker_state.py).                      *)
(*                                                                         *)
(* Four specifications share the module:                                   *)
(*   SpecTally  - the vote log of one step: append, check_winner, clear    *)
(*   Spec       - the ledger of one session, one caller at a time          *)
(*   SpecConc   - the ledger with two callers whose file reads and writes  *)
(*                interleave (the code takes no lock)                      *)
(*   SpecMath   - the reliability and cost formulas (maker_math.py)        *)
(***************************************************************************)
EXTENDS Integers, Sequences, FiniteSets, TLC

VARIABLES
    votes_file,     \* <<>> when votes.jsonl does not exist, else <<lines>>
    result,         \* <<>> or <<the value the last tally call returned>>
    state_file,     \* <<>> when execution.json does not exist, else <<document>>
    metrics_file,   \* metrics.jsonl: the sequence of appended records
    now,            \* the reading of datetime.now() at the next call
    calls,          \* update_step calls that returned since the last initialize
    completed,      \* mark_complete returned since the last initialize
    returned,       \* <<>> or <<what the last ledger call returned or raised>>
    pc,             \* SpecConc: where each caller stands in its call
    loaded,         \* SpecConc: what each caller's load() returned
    args,           \* SpecConc: the arguments of each caller's call
    math            \* <<>> or <<the last maker_math call and what it returned>>

tallyVars  == <<votes_file, result>>
ledgerVars == <<state_file, metrics_file, now, calls, completed, returned>>
concVars   == <<pc, loaded, args>>
vars       == <<votes_file, result, state_file, metrics_file, now, calls,
                completed, returned, pc, loaded, args,
                math>>

(***************************************************************************)
(* Bounds                                                                  *)
(***************************************************************************)
MaxVotes == 4       \* lines in votes.jsonl
MaxK     == 3       \* margin thresholds 1..MaxK
MaxSteps == 2       \* step identifiers and total_steps 1..MaxSteps
MaxClock == 3       \* readings of the clock, so calls in one run

Callers == {1, 2}   \* SpecConc: the processes calling into one session

(***************************************************************************)
(* Python values                                                           *)
(***************************************************************************)
\* A dict with string keys: a function on its key set.
EmptyDict == [q \in {} |-> q]

Put(d, key, v) == [q \in DOMAIN d \cup {key} |-> IF q = key THEN v ELSE d[q]]

Get(d, key, default) == IF key \in DOMAIN d THEN d[key] ELSE default

\* None, kept a record so that it compares with dicts and vote texts.
None == [none |-> TRUE]

(***************************************************************************)
(* Vote records as text.  A line of votes.jsonl is kept as what a JSON     *)
(* reader sees of it: whether it is an object, another JSON value, not     *)
(* JSON at all, or blank; for an object its members in the order written;  *)
(* and whether it carries insignificant whitespace.                        *)
(***************************************************************************)
Obj(pairs, ws) == [kind |-> "obj",    pairs |-> pairs, val |-> "", ws |-> ws]
Scalar(v, ws)  == [kind |-> "scalar", pairs |-> <<>>,  val |-> v,  ws |-> ws]
Bad(pairs)     == [kind |-> "bad",    pairs |-> pairs, val |-> "", ws |-> FALSE]
Blank          == [kind |-> "blank",  pairs |-> <<>>,  val |-> "", ws |-> TRUE]

\* {"action":"x","result":"y"}
VoteA  == Obj(<<<<"action", "x">>, <<"result", "y">>>>, FALSE)
\* { "step_id": "s1", "result": "y", "action": "x" }
VoteA2 == Obj(<<<<"step_id", "s1">>, <<"result", "y">>, <<"action", "x">>>>, TRUE)
\* {"action":"x","result":""}
VoteB  == Obj(<<<<"action", "x">>, <<"result", "">>>>, FALSE)
\* { "step_id": "s2", "action": "x" }
VoteB2 == Obj(<<<<"step_id", "s2">>, <<"action", "x">>>>, TRUE)
\* {"action":"x","resu      (a record cut short while being written)
VoteCut == Bad(<<<<"action", "x">>>>)
\* "x"
VoteS  == Scalar("x", TRUE)

Lines == {VoteA, VoteA2, VoteB, VoteB2, VoteCut, VoteS, Blank}

\* The member names JSON objects of the model use, in sorted order.
KeyOrder == <<"action", "result", "step_id">>

\* str.strip(): whitespace around the text goes, the text stays.
strip(v) == IF v.kind \in {"obj", "bad"} THEN v ELSE [v EXCEPT !.ws = FALSE]

JSONDecodeError == [err |-> "JSONDecodeError"]

\* json.loads: a dict for an object (a repeated member: the last one wins),
\* the value for any other JSON text, JSONDecodeError otherwise.  A decoded
\* value is [isdict, d, val]: the dict d, or the value val that is no dict.
loads(v) ==
    CASE v.kind = "obj" ->
           LET keys == {v.pairs[i][1] : i \in 1..Len(v.pairs)}
               last(key) == CHOOSE i \in 1..Len(v.pairs) :
                               /\ v.pairs[i][1] = key
                               /\ \A j \in (i+1)..Len(v.pairs) : v.pairs[j][1] # key
           IN  [isdict |-> TRUE, d |-> [key \in keys |-> v.pairs[last(key)][2]], val |-> ""]
      [] v.kind = "scalar" -> [isdict |-> FALSE, d |-> EmptyDict, val |-> v.val]
      [] OTHER -> JSONDecodeError

\* json.dumps(d, sort_keys=True, separators=(',', ':')): members in key
\* order, no whitespace.
dumps(parsed) ==
    IF parsed.isdict
    THEN LET present == SelectSeq(KeyOrder, LAMBDA key : key \in DOMAIN parsed.d)
         IN  Obj([i \in 1..Len(present) |-> <<present[i], parsed.d[present[i]]>>], FALSE)
    ELSE Scalar(parsed.val, FALSE)

\* Variant: no projection on (action, result), the whole dict is the key.
normalize_vote_whole(vote_str) ==
    LET parsed == loads(strip(vote_str))
    IN  IF parsed = JSONDecodeError THEN None ELSE dumps(parsed)

\* Variant: a text that does not decode is its own key instead of None.
normalize_vote_fallback(vote_str) ==
    LET parsed == loads(strip(vote_str))
    IN  IF parsed = JSONDecodeError
        THEN strip(vote_str)
        ELSE IF parsed.isdict
             THEN LET comparable == [action |-> Get(parsed.d, "action", ""),
                                     result |-> Get(parsed.d, "result", "")]
                  IN  dumps([isdict |-> TRUE, d |-> comparable, val |-> ""])
             ELSE dumps(parsed)

normalize_vote(vote_str) ==
    LET parsed == loads(strip(vote_str))
    IN  IF parsed = JSONDecodeError
        THEN None
        ELSE IF parsed.isdict
             THEN LET comparable == [action |-> Get(parsed.d, "action", ""),
                                     result |-> Get(parsed.d, "result", "")]
                  IN  dumps([isdict |-> TRUE, d |-> comparable, val |-> ""])
             ELSE dumps(parsed)

(***************************************************************************)
(* check_winner                                                            *)
(***************************************************************************)
IsBlank(v) == v.kind = "blank"

\* read_text().strip().split('\n'): blank lines at either end go; what is
\* left of an all-blank text is one empty string.
RECURSIVE lstrip(_)
lstrip(lines) ==
    IF lines # <<>> /\ IsBlank(Head(lines)) THEN lstrip(Tail(lines)) ELSE lines

RECURSIVE rstrip(_)
rstrip(lines) ==
    IF lines # <<>> /\ IsBlank(lines[Len(lines)])
    THEN rstrip(SubSeq(lines, 1, Len(lines) - 1))
    ELSE lines

raw_votes(lines) ==
    LET text == rstrip(lstrip(lines))
    IN  IF text = <<>> THEN <<Blank>> ELSE text

\* The loop of lines 53-59: the lines that are not blank and normalize.
original_votes(lines) ==
    SelectSeq(raw_votes(lines),
              LAMBDA v : ~IsBlank(strip(v)) /\ normalize_vote(v) # None)

normalized_votes(lines) ==
    LET orig == original_votes(lines)
    IN  [i \in 1..Len(orig) |-> normalize_vote(orig[i])]

\* Counter(iterable): a dict, so its items stand in first-insertion order;
\* each element adds one to its key's count.
\* Variant: a count per run of equal neighbours, as uniq -c gives.
RECURSIVE Counter_runs(_)
Counter_runs(elems) ==
    IF elems = <<>>
    THEN <<>>
    ELSE LET c == Counter_runs(SubSeq(elems, 1, Len(elems) - 1))
             e == elems[Len(elems)]
         IN  IF c # <<>> /\ c[Len(c)][1] = e
             THEN [c EXCEPT ![Len(c)] = <<e, c[Len(c)][2] + 1>>]
             ELSE Append(c, <<e, 1>>)

RECURSIVE Counter(_)
Counter(elems) ==
    IF elems = <<>>
    THEN <<>>
    ELSE LET c    == Counter(SubSeq(elems, 1, Len(elems) - 1))
             e    == elems[Len(elems)]
             seen == {i \in 1..Len(c) : c[i][1] = e}
         IN  IF seen = {}
             THEN Append(c, <<e, 1>>)
             ELSE LET i == CHOOSE i \in seen : TRUE
                  IN  [c EXCEPT ![i] = <<e, c[i][2] + 1>>]

\* sorted(items, key=count, reverse=True): a stable sort, so items of equal
\* count keep the order they had.
\* Variant: an unstable sort, an item goes in front of those of equal count.
insert_sorted_unstable(sorted, item) ==
    LET n == Cardinality({i \in 1..Len(sorted) : sorted[i][2] > item[2]})
    IN  SubSeq(sorted, 1, n) \o <<item>> \o SubSeq(sorted, n + 1, Len(sorted))

insert_sorted(sorted, item) ==
    LET n == Cardinality({i \in 1..Len(sorted) : sorted[i][2] >= item[2]})
    IN  SubSeq(sorted, 1, n) \o <<item>> \o SubSeq(sorted, n + 1, Len(sorted))

RECURSIVE stable_sort_desc(_)
stable_sort_desc(items) ==
    IF items = <<>>
    THEN <<>>
    ELSE insert_sorted(stable_sort_desc(SubSeq(items, 1, Len(items) - 1)),
                       items[Len(items)])

\* Variant: the items as the Counter holds them, not sorted by count.
most_common_unsorted(counts) == counts

most_common(counts) == stable_sort_desc(counts)

\* Variant: every original overwrites the entry, the last one stays.
norm_to_original_last(orig, norms, norm) ==
    orig[CHOOSE i \in 1..Len(norms) :
            /\ norms[i] = norm
            /\ \A j \in (i + 1)..Len(norms) : norms[j] # norm]

\* norm_to_original[norm]: the first original whose normal form is norm.
norm_to_original(orig, norms, norm) ==
    orig[CHOOSE i \in 1..Len(norms) :
            /\ norms[i] = norm
            /\ \A j \in 1..(i - 1) : norms[j] # norm]

\* Variant: strictly more than k.
single_candidate_wins_strict(leader_count, k) == leader_count > k

\* Line 79: a single candidate needs k votes.
single_candidate_wins(leader_count, k) == leader_count >= k

\* Line 93: the leader must be k ahead of the runner-up.
k_ahead(margin, k) == margin >= k

\* Lines 65-75: the key check_winner takes for the leader (None when it
\* returns before line 75).
leader_of(file) ==
    IF file = <<>>
    THEN None
    ELSE LET norms == normalized_votes(file[1])
         IN  IF Len(norms) = 0
             THEN None
             ELSE LET counts == Counter(norms)
                      sorted == most_common(counts)
                  IN  sorted[1][1]

check_winner(file, k) ==
    IF file = <<>>
    THEN [decided |-> FALSE, votes |-> 0, reason |-> "No votes file"]
    ELSE
    LET orig  == original_votes(file[1])
        norms == normalized_votes(file[1])
    IN  IF Len(norms) = 0
        THEN [decided |-> FALSE, votes |-> 0, reason |-> "No valid votes"]
        ELSE
        LET counts       == Counter(norms)
            sorted       == most_common(counts)
            leader_norm  == sorted[1][1]
            leader_count == sorted[1][2]
            undecided    == [decided |-> FALSE, votes |-> Len(norms),
                             leader_count |-> leader_count,
                             candidates |-> Len(counts), k |-> k,
                             reason |-> "No k-ahead winner yet"]
        IN  IF Len(sorted) = 1
            THEN IF single_candidate_wins(leader_count, k)
                 THEN [decided |-> TRUE,
                       winner |-> loads(norm_to_original(orig, norms, leader_norm)),
                       votes |-> leader_count, margin |-> leader_count,
                       candidates |-> 1, k |-> k]
                 ELSE undecided
            ELSE LET runner_up_count == sorted[2][2]
                     margin == leader_count - runner_up_count
                 IN  IF k_ahead(margin, k)
                     THEN [decided |-> TRUE,
                           winner |-> loads(norm_to_original(orig, norms, leader_norm)),
                           votes |-> leader_count, margin |-> margin,
                           candidates |-> Len(counts), k |-> k]
                     ELSE undecided

clear_votes_result == [cleared |-> TRUE]

(***************************************************************************)
(* The vote log of one step                                                *)
(***************************************************************************)
\* The proposer appends one line to votes.jsonl, creating it if need be.
AppendVote(v) ==
    /\ Len(IF votes_file = <<>> THEN <<>> ELSE votes_file[1]) < MaxVotes
    /\ votes_file' = <<(IF votes_file = <<>> THEN <<>> ELSE votes_file[1]) \o <<v>>>>
    /\ result' = <<>>
    /\ UNCHANGED <<ledgerVars, concVars, math>>

\* Variant: a check that decides consumes the votes file.
CheckWinner_consume(k) ==
    /\ result' = <<[op |-> "check_winner", k |-> k,
                    ret |-> check_winner(votes_file, k),
                    leader |-> leader_of(votes_file)]>>
    /\ votes_file' = IF check_winner(votes_file, k).decided THEN <<>> ELSE votes_file
    /\ UNCHANGED <<ledgerVars, concVars, math>>

CheckWinner(k) ==
    /\ result' = <<[op |-> "check_winner", k |-> k,
                    ret |-> check_winner(votes_file, k),
                    leader |-> leader_of(votes_file)]>>
    /\ UNCHANGED <<votes_file, ledgerVars, concVars, math>>

\* Variant: unlink without looking whether the file exists.
ClearVotes_strict ==
    /\ votes_file' = <<>>
    /\ result' = <<[op |-> "clear_votes", k |-> 0,
                    ret |-> IF votes_file # <<>> THEN clear_votes_result
                            ELSE [raised |-> "FileNotFoundError"],
                    leader |-> None, existed |-> votes_file # <<>>]>>
    /\ UNCHANGED <<ledgerVars, concVars, math>>

\* clear_votes: unlink the file if it exists.
ClearVotes ==
    /\ votes_file' = IF votes_file # <<>> THEN <<>> ELSE votes_file
    /\ result' = <<[op |-> "clear_votes", k |-> 0, ret |-> clear_votes_result,
                    leader |-> None, existed |-> votes_file # <<>>]>>
    /\ UNCHANGED <<ledgerVars, concVars, math>>

InitTally == votes_file = <<>> /\ result = <<>>

InitLedger ==
    /\ state_file = <<>>
    /\ metrics_file = <<>>
    /\ now = 0
    /\ calls = <<>>
    /\ completed = FALSE
    /\ returned = <<>>

InitConc ==
    /\ pc = [p \in Callers |-> "idle"]
    /\ loaded = [p \in Callers |-> None]
    /\ args = [p \in Callers |-> None]

InitMath == math = <<>>

Init == InitTally /\ InitLedger /\ InitConc /\ InitMath

NextTally ==
    \/ \E v \in Lines : AppendVote(v)
    \/ \E k \in 1..MaxK : CheckWinner(k)
    \/ ClearVotes

SpecTally == Init /\ [][NextTally]_vars

(***************************************************************************)
(* MAKERState: execution.json and metrics.jsonl of one session             *)
(***************************************************************************)
session_id == "session"

StepIds  == 1..MaxSteps
Statuses == {"voting", "decided", "failed"}

\* Winners as the CLI decodes them from its winner_json argument.
Winner1 == [action |-> "x", result |-> "y"]
Winner2 == [action |-> "x", result |-> ""]

\* (winner, votes, margin, red_flags) of an update_step call; the first is
\* the defaults of its signature.
StepArgs == {
    [winner |-> None,    votes |-> 0, margin |-> 0, red_flags |-> 0],
    [winner |-> Winner1, votes |-> 3, margin |-> 3, red_flags |-> 0],
    [winner |-> Winner2, votes |-> 5, margin |-> 2, red_flags |-> 1] }

\* (task_description, k) of an initialize call.
TaskArgs == {
    [task_description |-> "task A", k |-> 3],
    [task_description |-> "task B", k |-> 2] }

KeyError == [raised |-> "KeyError"]

initialize(total_steps, task_description, k, t) ==
    [session_id       |-> session_id,
     task_description |-> task_description,
     total_steps      |-> total_steps,
     k                |-> k,
     started_at       |-> t,
     status           |-> "in_progress",
     current_step     |-> 0,
     steps            |-> EmptyDict,
     metrics          |-> [total_votes_cast |-> 0,
                           red_flags        |-> 0,
                           completed_steps  |-> 0,
                           failed_steps     |-> 0]]

load(file) == IF file = <<>> THEN None ELSE file[1]

\* `x or {}`: None and the empty dict are falsy.
or_empty(x) == IF x = None \/ DOMAIN x = {} THEN EmptyDict ELSE x

\* Line 74 and line 98: the step records whose status is decided.
decided_steps(steps) == {sid \in DOMAIN steps : steps[sid]["status"] = "decided"}

\* Line 73.
bump_completed(state) ==
    Put(state, "metrics",
        Put(state["metrics"], "completed_steps",
            Get(state["metrics"], "completed_steps", 0) + 1))

\* Line 74.
recompute_current_step(state) ==
    Put(state, "current_step", Cardinality(decided_steps(state["steps"])))

\* Line 76.
bump_failed(state) ==
    Put(state, "metrics",
        Put(state["metrics"], "failed_steps",
            Get(state["metrics"], "failed_steps", 0) + 1))

\* Variant: the votes of the step records now held, not a running sum.
add_votes_snapshot(state, votes) ==
    LET steps == state["steps"]
        RECURSIVE Sum(_)
        Sum(S) == IF S = {} THEN 0
                  ELSE LET sid == CHOOSE sid \in S : TRUE
                       IN  steps[sid]["votes"] + Sum(S \ {sid})
    IN  Put(state, "metrics",
            Put(state["metrics"], "total_votes_cast", Sum(DOMAIN steps)))

\* Line 78.
add_votes(state, votes) ==
    Put(state, "metrics",
        Put(state["metrics"], "total_votes_cast",
            Get(state["metrics"], "total_votes_cast", 0) + votes))

\* Line 79.
add_red_flags(state, red_flags) ==
    Put(state, "metrics",
        Put(state["metrics"], "red_flags",
            Get(state["metrics"], "red_flags", 0) + red_flags))

\* Variant: the new record is laid over the one already held for the step,
\* a winner of None leaving the earlier winner in place.
set_step_merge(state, step_id, step_data) ==
    LET old    == Get(state["steps"], step_id, step_data)
        merged == IF step_data["winner"] = None
                  THEN Put(step_data, "winner", old["winner"])
                  ELSE step_data
    IN  Put(state, "steps", Put(state["steps"], step_id, merged))

\* Line 69.
set_step(state, step_id, step_data) ==
    Put(state, "steps", Put(state["steps"], step_id, step_data))

\* update_step on what load() returned, at clock reading t: the state it
\* saves and the record it logs, or the KeyError it raises before saving.
update_step(loaded_state, step_id, status, winner, votes, margin, red_flags, t) ==
    LET state0    == or_empty(loaded_state)
        state1    == IF "steps" \notin DOMAIN state0
                     THEN Put(state0, "steps", EmptyDict)
                     ELSE state0
        step_data == [step_id    |-> step_id,
                      status     |-> status,
                      votes      |-> votes,
                      margin     |-> margin,
                      red_flags  |-> red_flags,
                      winner     |-> winner,
                      updated_at |-> t]
        state2    == set_step(state1, step_id, step_data)
    IN  IF "metrics" \notin DOMAIN state2
        THEN KeyError
        ELSE LET state3 == IF status = "decided"
                           THEN recompute_current_step(bump_completed(state2))
                           ELSE IF status = "failed"
                                THEN bump_failed(state2)
                                ELSE state2
                 state4 == add_red_flags(add_votes(state3, votes), red_flags)
             IN  [raised |-> "", state |-> state4, step_data |-> step_data]

\* Variant: resumable whatever the session status.
can_resume_any_status(completed_steps, total, status) == completed_steps < total

\* Line 105.
can_resume(completed_steps, total, status) ==
    completed_steps < total /\ status = "in_progress"

get_resume_point(loaded_state) ==
    IF or_empty(loaded_state) = EmptyDict
    THEN None
    ELSE LET state == loaded_state
             n     == Cardinality(decided_steps(Get(state, "steps", EmptyDict)))
             total == Get(state, "total_steps", 0)
         IN  [completed_steps |-> n,
              total_steps     |-> total,
              next_step       |-> n + 1,
              can_resume      |-> can_resume(n, total, Get(state, "status", None))]

\* Variant: the status and the completion time are saved as the whole
\* document.
mark_complete_fresh(loaded_state, success, t) ==
    [status       |-> IF success THEN "success" ELSE "failed",
     completed_at |-> t]

mark_complete(loaded_state, success, t) ==
    LET state0 == or_empty(loaded_state)
        state1 == Put(state0, "status", IF success THEN "success" ELSE "failed")
    IN  Put(state1, "completed_at", t)

\* Variant: metrics.jsonl opened for writing, not for appending.
log_metric_truncating(file, metric) == <<metric>>

\* _log_metric: one more line at the end of metrics.jsonl.
log_metric(file, metric) == Append(file, metric)

(***************************************************************************)
(* The ledger of one session, one call at a time                           *)
(***************************************************************************)
\* Variant: initialize lays its fields over the document already on record.
Initialize_merge(total_steps, task) ==
    /\ now < MaxClock
    /\ LET fresh == initialize(total_steps, task.task_description, task.k, now)
           prior == or_empty(load(state_file))
       IN  state_file' = <<[key \in DOMAIN fresh \cup DOMAIN prior |->
                               IF key \in {"steps", "metrics", "current_step", "completed_at"}
                                  /\ key \in DOMAIN prior
                               THEN prior[key]
                               ELSE fresh[key]]>>
    /\ now' = now + 1
    /\ calls' = <<>>
    /\ completed' = FALSE
    /\ returned' = <<[op |-> "initialize", raised |-> "",
                      args |-> [total_steps |-> total_steps,
                                task_description |-> task.task_description,
                                k |-> task.k]]>>
    /\ UNCHANGED <<metrics_file, tallyVars, math, concVars>>

Initialize(total_steps, task) ==
    /\ now < MaxClock
    /\ state_file' = <<initialize(total_steps, task.task_description, task.k, now)>>
    /\ now' = now + 1
    /\ calls' = <<>>
    /\ completed' = FALSE
    /\ returned' = <<[op |-> "initialize", raised |-> "",
                      args |-> [total_steps |-> total_steps,
                                task_description |-> task.task_description,
                                k |-> task.k]]>>
    /\ UNCHANGED <<metrics_file, tallyVars, math, concVars>>

UpdateStep(step_id, status, a) ==
    /\ now < MaxClock
    /\ LET r == update_step(load(state_file), step_id, status,
                            a.winner, a.votes, a.margin, a.red_flags, now)
       IN  IF r = KeyError
           THEN /\ returned' = <<[op |-> "update_step", raised |-> "KeyError",
                                  args |-> [step_id |-> step_id, status |-> status, a |-> a]]>>
                /\ UNCHANGED <<state_file, metrics_file, calls>>
           ELSE /\ state_file' = <<r.state>>
                /\ metrics_file' = log_metric(metrics_file, r.step_data)
                /\ calls' = Append(calls, r.step_data)
                /\ returned' = <<[op |-> "update_step", raised |-> "",
                                  args |-> [step_id |-> step_id, status |-> status, a |-> a]]>>
    /\ now' = now + 1
    /\ UNCHANGED <<completed, tallyVars, math, concVars>>

MarkComplete(success) ==
    /\ now < MaxClock
    /\ state_file' = <<mark_complete(load(state_file), success, now)>>
    /\ now' = now + 1
    /\ completed' = TRUE
    /\ returned' = <<[op |-> "mark_complete", raised |-> ""]>>
    /\ UNCHANGED <<metrics_file, calls, tallyVars, math, concVars>>

GetResumePoint ==
    /\ returned' = <<[op |-> "get_resume_point", raised |-> "",
                      val |-> get_resume_point(load(state_file))]>>
    /\ UNCHANGED <<state_file, metrics_file, now, calls, completed,
                   tallyVars, concVars, math>>

Next ==
    \/ \E total_steps \in 1..MaxSteps, task \in TaskArgs :
          Initialize(total_steps, task)
    \/ \E step_id \in StepIds, status \in Statuses, a \in StepArgs :
          UpdateStep(step_id, status, a)
    \/ \E success \in BOOLEAN : MarkComplete(success)
    \/ GetResumePoint

Spec == Init /\ [][Next]_vars

(***************************************************************************)
(* The ledger with two callers.  update_step is load (line 54), then       *)
(* build and _save_state (lines 56-81), then _log_metric (line 82);        *)
(* mark_complete is load (line 110), then build and _save_state (lines     *)
(* 111-113).  Nothing in the code holds a lock across these, so the steps  *)
(* of two callers interleave.  The session is initialized while no call is *)
(* in flight.                                                              *)
(***************************************************************************)
InFlight == Cardinality({p \in Callers : pc[p] # "idle"})

Idle == \A p \in Callers : pc[p] = "idle"

ConcInitialize(total_steps, task) ==
    /\ Idle
    /\ Initialize(total_steps, task)

BeginUpdate(p, step_id, status, a) ==
    /\ pc[p] = "idle"
    /\ now + InFlight < MaxClock
    /\ pc' = [pc EXCEPT ![p] = "update_loaded"]
    /\ loaded' = [loaded EXCEPT ![p] = load(state_file)]
    /\ args' = [args EXCEPT ![p] = [step_id |-> step_id, status |-> status, a |-> a]]
    /\ UNCHANGED <<ledgerVars, tallyVars, math>>

SaveUpdate(p) ==
    /\ pc[p] = "update_loaded"
    /\ LET r == update_step(loaded[p], args[p].step_id, args[p].status,
                            args[p].a.winner, args[p].a.votes, args[p].a.margin,
                            args[p].a.red_flags, now)
       IN  IF r = KeyError
           THEN /\ returned' = <<[op |-> "update_step", raised |-> "KeyError"]>>
                /\ pc' = [pc EXCEPT ![p] = "idle"]
                /\ args' = [args EXCEPT ![p] = None]
                /\ UNCHANGED state_file
           ELSE /\ state_file' = <<r.state>>
                /\ pc' = [pc EXCEPT ![p] = "update_saved"]
                /\ args' = [args EXCEPT ![p] = r.step_data]
                /\ UNCHANGED returned
    /\ now' = now + 1
    /\ loaded' = [loaded EXCEPT ![p] = None]
    /\ UNCHANGED <<metrics_file, calls, completed, tallyVars, math>>

LogUpdate(p) ==
    /\ pc[p] = "update_saved"
    /\ metrics_file' = log_metric(metrics_file, args[p])
    /\ calls' = Append(calls, args[p])
    /\ returned' = <<[op |-> "update_step", raised |-> ""]>>
    /\ pc' = [pc EXCEPT ![p] = "idle"]
    /\ args' = [args EXCEPT ![p] = None]
    /\ UNCHANGED <<state_file, now, completed, loaded, tallyVars, math>>

BeginComplete(p, success) ==
    /\ pc[p] = "idle"
    /\ now + InFlight < MaxClock
    /\ pc' = [pc EXCEPT ![p] = "complete_loaded"]
    /\ loaded' = [loaded EXCEPT ![p] = load(state_file)]
    /\ args' = [args EXCEPT ![p] = [success |-> success]]
    /\ UNCHANGED <<ledgerVars, tallyVars, math>>

SaveComplete(p) ==
    /\ pc[p] = "complete_loaded"
    /\ state_file' = <<mark_complete(loaded[p], args[p].success, now)>>
    /\ now' = now + 1
    /\ completed' = TRUE
    /\ returned' = <<[op |-> "mark_complete", raised |-> ""]>>
    /\ pc' = [pc EXCEPT ![p] = "idle"]
    /\ loaded' = [loaded EXCEPT ![p] = None]
    /\ args' = [args EXCEPT ![p] = None]
    /\ UNCHANGED <<metrics_file, calls, tallyVars, math>>

NextConc ==
    \/ \E total_steps \in 1..MaxSteps, task \in TaskArgs :
          ConcInitialize(total_steps, task)
    \/ \E p \in Callers, step_id \in StepIds, status \in Statuses, a \in StepArgs :
          BeginUpdate(p, step_id, status, a)
    \/ \E p \in Callers : SaveUpdate(p)
    \/ \E p \in Callers : LogUpdate(p)
    \/ \E p \in Callers, success \in BOOLEAN : BeginComplete(p, success)
    \/ \E p \in Callers : SaveComplete(p)

SpecConc == Init /\ [][NextConc]_vars

(***************************************************************************)
(* The reliability and cost formulas (maker_math.py)                       *)
(*                                                                         *)
(* Probabilities and targets are exact fractions num/den where the code    *)
(* has floats, and a value the code computes with a real power is kept as  *)
(* its base and its exponent.                                              *)
(***************************************************************************)
Frac(n, d) == [num |-> n, den |-> d]

\* p arguments: below, at and above both ends of (0, 1), and inside it.
Probabilities == {Frac(-1, 5), Frac(0, 5), Frac(1, 5), Frac(1, 2),
                  Frac(4, 5), Frac(5, 5), Frac(6, 5)}

\* target arguments.
Targets == {Frac(0, 10), Frac(1, 2), Frac(9, 10), Frac(10, 10), Frac(11, 10)}

\* m arguments (steps per subtask).
SubtaskSizes == {0, 1, 2}

\* cost_per_call arguments, in thousandths.
CostsPerCall == {1, 3}

\* s arguments of recommend_k.
RecommendSteps == {0, 1}

TaskTypes == {"fast", "standard", "high_stakes", "other"}

ValueError(msg) == [raised |-> "ValueError", msg |-> msg]

ZeroDivisionError == [raised |-> "ZeroDivisionError", msg |-> "float division by zero"]

Value(v) == [raised |-> "", value |-> v]

RECURSIVE Pow(_, _)
Pow(b, e) == IF e = 0 THEN 1 ELSE b * Pow(b, e - 1)

\* p <= 0 or p >= 1
outside_unit(p) == p.num <= 0 \/ p.num >= p.den

\* 1 + ratio**k with ratio = (1 - p) / p, as a fraction.
one_plus_ratio_pow(p, k) ==
    Frac(Pow(p.num, k) + Pow(p.den - p.num, k), Pow(p.num, k))

\* 1 / (1 + ratio**k)
per_step_success_probability(p, k) ==
    IF outside_unit(p) THEN ValueError("p must be in (0, 1)")
    ELSE IF k < 1 THEN ValueError("k must be >= 1")
    ELSE LET r == one_plus_ratio_pow(p, k)
         IN  Value(Frac(r.den, r.num))

\* (1 + ratio**k) ** exponent with exponent = -s / m
full_task_success_probability(p, k, s, m) ==
    IF outside_unit(p) THEN ValueError("p must be in (0, 1)")
    ELSE IF k < 1 \/ s < 1 \/ m < 1 THEN ValueError("k, s, m must be >= 1")
    ELSE Value([base |-> one_plus_ratio_pow(p, k), exponent |-> Frac(-s, m)])

\* max(1, ceil(log(inner) / log(ratio))) with inner = target**(-m/s) - 1:
\* the least k >= 1 at or above log(inner) / log(ratio), which is the least
\* k with ratio**k <= inner when ratio < 1 and with ratio**k >= inner when
\* ratio > 1; either comparison is that of (1 + ratio**k)**s with
\* target**(-m), taken here on the integers.
RECURSIVE least_k(_, _, _, _, _)
least_k(p, s, target, m, k) ==
    LET r   == one_plus_ratio_pow(p, k)
        lhs == Pow(r.num, s) * Pow(target.num, m)
        rhs == Pow(r.den, s) * Pow(target.den, m)
    IN  IF (2 * p.num > p.den /\ lhs <= rhs) \/ (2 * p.num < p.den /\ lhs >= rhs)
        THEN k
        ELSE least_k(p, s, target, m, k + 1)

minimum_k_for_target(p, s, target, m) ==
    IF outside_unit(p) THEN ValueError("p must be in (0, 1)")
    ELSE IF outside_unit(target) THEN ValueError("target must be in (0, 1)")
    ELSE IF s < 1 \/ m < 1 THEN ValueError("s, m must be >= 1")
    ELSE IF Pow(target.den, m) <= Pow(target.num, m) THEN Value(1)
    ELSE IF p.den - p.num <= 0 THEN Value(1)
    ELSE IF 2 * p.num = p.den THEN ZeroDivisionError
    ELSE Value(least_k(p, s, target, m, 1))

\* votes_per_step = k + (k - 1) * 0.5 + k * 0.1, in tenths; the costs in
\* ten-thousandths. No argument is checked.
expected_cost_estimate(p, k, s, cost_per_call) ==
    LET votes_per_step == 10 * k + (k - 1) * 5 + k
        total_votes    == votes_per_step * s
        total_cost     == total_votes * cost_per_call
    IN  Value([votes_per_step |-> votes_per_step,
               total_votes    |-> total_votes,
               total_cost     |-> total_cost,
               cost_per_step  |-> votes_per_step * cost_per_call])

\* targets.get(task_type, 0.99)
target_of(task_type) ==
    IF task_type = "fast" THEN Frac(90, 100)
    ELSE IF task_type = "high_stakes" THEN Frac(999, 1000)
    ELSE Frac(99, 100)

\* What minimum_k_for_target or full_task_success_probability raises goes
\* through to the caller.
recommend_k(p, s, task_type) ==
    LET target == target_of(task_type)
        k_min  == minimum_k_for_target(p, s, target, 1)
    IN  IF k_min.raised # "" THEN k_min
        ELSE LET recommended_k == IF task_type = "fast" \/ k_min.value >= 3
                                  THEN k_min.value ELSE 3
                 p_success     == full_task_success_probability(p, recommended_k, s, 1)
             IN  IF p_success.raised # "" THEN p_success
                 ELSE Value([recommended_k            |-> recommended_k,
                             k_min                    |-> k_min.value,
                             task_success_probability |-> p_success.value,
                             target                   |-> target])

PerStepSuccessProbability(p, k) ==
    /\ math' = <<[fn |-> "per_step_success_probability",
                  args |-> [p |-> p, k |-> k],
                  ret |-> per_step_success_probability(p, k)]>>
    /\ UNCHANGED <<tallyVars, ledgerVars, concVars>>

FullTaskSuccessProbability(p, k, s, m) ==
    /\ math' = <<[fn |-> "full_task_success_probability",
                  args |-> [p |-> p, k |-> k, s |-> s, m |-> m],
                  ret |-> full_task_success_probability(p, k, s, m)]>>
    /\ UNCHANGED <<tallyVars, ledgerVars, concVars>>

MinimumKForTarget(p, s, target, m) ==
    /\ math' = <<[fn |-> "minimum_k_for_target",
                  args |-> [p |-> p, s |-> s, target |-> target, m |-> m],
                  ret |-> minimum_k_for_target(p, s, target, m)]>>
    /\ UNCHANGED <<tallyVars, ledgerVars, concVars>>

ExpectedCostEstimate(p, k, s, cost_per_call) ==
    /\ math' = <<[fn |-> "expected_cost_estimate",
                  args |-> [p |-> p, k |-> k, s |-> s, cost_per_call |-> cost_per_call],
                  ret |-> expected_cost_estimate(p, k, s, cost_per_call)]>>
    /\ UNCHANGED <<tallyVars, ledgerVars, concVars>>

RecommendK(p, s, task_type) ==
    /\ math' = <<[fn |-> "recommend_k",
                  args |-> [p |-> p, s |-> s, task_type |-> task_type],
                  ret |-> recommend_k(p, s, task_type)]>>
    /\ UNCHANGED <<tallyVars, ledgerVars, concVars>>

NextMath ==
    \/ \E p \in Probabilities, k \in 0..MaxK :
          PerStepSuccessProbability(p, k)
    \/ \E p \in Probabilities, k \in 0..MaxK, s \in 0..MaxSteps, m \in SubtaskSizes :
          FullTaskSuccessProbability(p, k, s, m)
    \/ \E p \in Probabilities, s \in 0..MaxSteps, target \in Targets, m \in SubtaskSizes :
          MinimumKForTarget(p, s, target, m)
    \/ \E p \in Probabilities, k \in 0..MaxK, s \in 0..MaxSteps, c \in CostsPerCall :
          ExpectedCostEstimate(p, k, s, c)
    \/ \E p \in Probabilities, s \in RecommendSteps, task_type \in TaskTypes :
          RecommendK(p, s, task_type)

SpecMath == Init /\ [][NextMath]_vars


(***************************************************************************)
(* What the tally is meant to compute, stated on the lines themselves      *)
(***************************************************************************)
FileLines == IF votes_file = <<>> THEN <<>> ELSE votes_file[1]

Checked == result # <<>> /\ result[1].op = "check_winner"

Ret == result[1].ret

Parsable(v) == v.kind \in {"obj", "scalar"}

Unparsable(v) == v.kind = "bad"

\* The value of member `name` of an object as written, "" when it has none.
Field(v, name) ==
    LET at == {i \in 1..Len(v.pairs) : v.pairs[i][1] = name}
    IN  IF at = {} THEN ""
        ELSE v.pairs[CHOOSE i \in at : \A j \in at : j <= i][2]

\* The group of a valid record: (action, result) of a mapping, the value of
\* anything else.
GroupOf(v) ==
    IF v.kind = "obj"
    THEN <<"obj", Field(v, "action"), Field(v, "result")>>
    ELSE <<"scalar", v.val, "">>

NoGroup == <<"none", "", "">>

\* The group of every line, NoGroup for a line that is no valid record.
GroupSeq(lines) ==
    [i \in 1..Len(lines) |-> IF Parsable(lines[i]) THEN GroupOf(lines[i]) ELSE NoGroup]

ValidAt(gs)     == {i \in 1..Len(gs) : gs[i] # NoGroup}
Groups(gs)      == {gs[i] : i \in ValidAt(gs)}
Members(gs, g)  == {i \in 1..Len(gs) : gs[i] = g}
CountOf(gs, g)  == Cardinality(Members(gs, g))
FirstOf(gs, g)  == CHOOSE i \in Members(gs, g) : \A j \in Members(gs, g) : i <= j
Max(S)          == CHOOSE n \in S : \A m \in S : m <= n
TopCount(gs)    == Max({CountOf(gs, g) : g \in Groups(gs)})
TopGroups(gs)   == {g \in Groups(gs) : CountOf(gs, g) = TopCount(gs)}
\* The count of the best group other than one top group.
SecondCount(gs) ==
    LET top == CHOOSE g \in TopGroups(gs) : TRUE
    IN  Max({CountOf(gs, g) : g \in Groups(gs) \ {top}})
\* The top group whose first record comes first.
EarliestTop(gs) ==
    LET firsts == {FirstOf(gs, g) : g \in TopGroups(gs)}
    IN  gs[CHOOSE i \in firsts : \A j \in firsts : i <= j]

\* The group a decoded winner belongs to.
GroupOfDecoded(w) ==
    IF w.isdict
    THEN <<"obj", Get(w.d, "action", ""), Get(w.d, "result", "")>>
    ELSE <<"scalar", w.val, "">>

\* C1: with two or more groups, decided iff top count - second count >= k;
\* then margin is that difference and the winner is of the top group;
\* otherwise decided is false.
C1_MarginRule ==
    Checked =>
        \A gs \in {GroupSeq(FileLines)} :
            Cardinality(Groups(gs)) >= 2 =>
                \A diff \in {TopCount(gs) - SecondCount(gs)} :
                    /\ Ret.decided <=> (diff >= result[1].k)
                    /\ Ret.decided =>
                          /\ Ret.margin = diff
                          /\ GroupOfDecoded(Ret.winner) \in TopGroups(gs)

C1_Witness ==
    /\ Checked
    /\ Cardinality(Groups(GroupSeq(FileLines))) >= 2
    /\ Ret.decided
    /\ result[1].k = 2
    /\ Ret.margin = 2
    /\ FirstOf(GroupSeq(FileLines), GroupOfDecoded(Ret.winner)) > 1

\* C2: with one group, decided iff the number of valid records >= k; then
\* votes = margin = that number and candidates = 1.
C2_SingleCandidate ==
    Checked =>
        \A gs \in {GroupSeq(FileLines)} :
            Cardinality(Groups(gs)) = 1 =>
                \A n \in {Cardinality(ValidAt(gs))} :
                    /\ Ret.decided <=> (n >= result[1].k)
                    /\ Ret.decided =>
                          /\ Ret.votes = n
                          /\ Ret.margin = n
                          /\ Ret.candidates = 1

C2_Witness ==
    /\ Checked
    /\ Cardinality(Groups(GroupSeq(FileLines))) = 1
    /\ Ret.decided
    /\ Ret.votes = 3
    /\ result[1].k = 3

\* The collection with its unparsable records removed.
WithoutUnparsable(file) ==
    IF file = <<>> THEN <<>> ELSE <<SelectSeq(file[1], LAMBDA v : ~Unparsable(v))>>

\* C7: the Decision is the one of the collection without its unparsable
\* records, and with no valid record it is decided=false, votes=0.
C7_UnparsableIgnored ==
    Checked =>
        /\ Ret = check_winner(WithoutUnparsable(votes_file), result[1].k)
        /\ "decided" \in DOMAIN Ret
        /\ ValidAt(GroupSeq(FileLines)) = {} => (Ret.decided = FALSE /\ Ret.votes = 0)

C7_Witness ==
    /\ Checked
    /\ Len(FileLines) = MaxVotes
    /\ Unparsable(FileLines[Len(FileLines)])
    /\ Unparsable(FileLines[1])
    /\ Ret.decided

\* C8: a decided winner is the decoded first record of the winning group,
\* as written; votes is that group's count; candidates the number of groups.
C8_WinnerIsEarliestOriginal ==
    (Checked /\ Ret.decided) =>
        \A gs \in {GroupSeq(FileLines)} :
        \A top \in {TopGroups(gs)} :
            /\ Cardinality(top) = 1
            /\ \A g \in top :
                  /\ Ret.winner = loads(FileLines[FirstOf(gs, g)])
                  /\ Ret.votes = CountOf(gs, g)
            /\ Ret.candidates = Cardinality(Groups(gs))

C8_Witness ==
    /\ Checked
    /\ Ret.decided
    /\ Ret.winner.isdict
    /\ "step_id" \in DOMAIN Ret.winner.d
    /\ \E i \in 1..Len(FileLines) :
          /\ GroupSeq(FileLines)[i] = GroupOfDecoded(Ret.winner)
          /\ loads(FileLines[i]) # Ret.winner

\* C9: among the groups of the highest count the leader is the one whose
\* first record comes first in the collection.
C9_StableTieBreak ==
    Checked =>
        \A gs \in {GroupSeq(FileLines)} :
            Groups(gs) # {} => GroupOf(result[1].leader) = EarliestTop(gs)

C9_Witness ==
    /\ Checked
    /\ Cardinality(TopGroups(GroupSeq(FileLines))) >= 2
    /\ TopCount(GroupSeq(FileLines)) = 2
    /\ Cardinality(Groups(GroupSeq(FileLines))) = 2

\* C10: two mapping records are of one group iff their action values and
\* their result values are equal (a missing one being ""), and normalizing a
\* canonical key gives that key.
C10_Equivalence ==
    Checked =>
        \A orig \in {original_votes(FileLines)} :
        \A norms \in {normalized_votes(FileLines)} :
            /\ \A i, j \in 1..Len(orig) :
                  (orig[i].kind = "obj" /\ orig[j].kind = "obj") =>
                      ((norms[i] = norms[j]) <=>
                          /\ Field(orig[i], "action") = Field(orig[j], "action")
                          /\ Field(orig[i], "result") = Field(orig[j], "result"))
            /\ \A i \in 1..Len(norms) : normalize_vote(norms[i]) = norms[i]

C10_Witness ==
    /\ Checked
    /\ \E i, j \in 1..Len(FileLines) :
          /\ FileLines[i] = VoteA /\ FileLines[j] = VoteA2
    /\ \E i, j \in 1..Len(FileLines) :
          /\ FileLines[i] = VoteB /\ FileLines[j] = VoteB2
    /\ Ret.candidates = 2

(***************************************************************************)
(* The ledger claims                                                       *)
(***************************************************************************)
Doc == state_file[1]

\* The document initialize writes and update_step keeps: it has its steps,
\* its metrics and its current_step.
Initialized ==
    /\ state_file # <<>>
    /\ {"steps", "metrics", "current_step", "total_steps"} \subseteq DOMAIN Doc

DecidedNow == {sid \in DOMAIN Doc["steps"] : Doc["steps"][sid]["status"] = "decided"}

RECURSIVE SumOf(_, _)
SumOf(seq, field) ==
    IF seq = <<>> THEN 0
    ELSE seq[Len(seq)][field] + SumOf(SubSeq(seq, 1, Len(seq) - 1), field)

CallsWith(status) == Cardinality({i \in 1..Len(calls) : calls[i]["status"] = status})

\* C3: current_step is the number of step records whose status is decided.
C3_CurrentStepIsDecidedCount ==
    Initialized => Doc["current_step"] = Cardinality(DecidedNow)

\* C4: the metrics are the sums and counts over every update_step call
\* since initialize, repeated step ids counted again.
C4_CumulativeMetrics ==
    Initialized =>
        /\ Doc["metrics"]["total_votes_cast"] = SumOf(calls, "votes")
        /\ Doc["metrics"]["red_flags"] = SumOf(calls, "red_flags")
        /\ Doc["metrics"]["completed_steps"] = CallsWith("decided")
        /\ Doc["metrics"]["failed_steps"] = CallsWith("failed")

C4_Witness ==
    /\ Initialized
    /\ Len(calls) = 2
    /\ calls[1]["step_id"] = calls[2]["step_id"]
    /\ calls[1]["status"] = "decided" /\ calls[2]["status"] = "decided"
    /\ Doc["metrics"]["total_votes_cast"] = 8
    /\ Doc["metrics"]["red_flags"] = 1
    /\ Doc["metrics"]["completed_steps"] = 2
    /\ Cardinality(DOMAIN Doc["steps"]) = 1

Resumed ==
    /\ returned # <<>>
    /\ returned[1].op = "get_resume_point"
    /\ returned[1].val # None

\* C5: get_resume_point returns the number of decided step records, the
\* session's total_steps, next_step one more than the former, and can_resume
\* iff fewer are decided than total_steps and the status is in_progress; so
\* it is false once mark_complete has run on the session.
C5_ResumePoint ==
    Resumed =>
        \A r \in {returned[1].val} :
        \A n \in {Cardinality({sid \in DOMAIN Get(Doc, "steps", EmptyDict) :
                                  Doc["steps"][sid]["status"] = "decided"})} :
            /\ r.completed_steps = n
            /\ "total_steps" \in DOMAIN Doc => r.total_steps = Doc["total_steps"]
            /\ r.next_step = n + 1
            /\ r.can_resume <=> (n < r.total_steps /\ Doc["status"] = "in_progress")
            /\ completed => ~r.can_resume

C5_Witness ==
    /\ Resumed
    /\ Initialized
    /\ completed
    /\ returned[1].val.completed_steps = 1
    /\ returned[1].val.total_steps = 2
    /\ ~returned[1].val.can_resume

\* C6: two update_step calls on one session with different step ids, however
\* their steps interleave, leave both step records and both calls' votes and
\* red flags in the saved state.
C6_NoLostUpdate ==
    (/\ Idle
     /\ Initialized
     /\ Len(calls) = 2
     /\ calls[1]["step_id"] # calls[2]["step_id"]) =>
        /\ {calls[1]["step_id"], calls[2]["step_id"]} \subseteq DOMAIN Doc["steps"]
        /\ Doc["metrics"]["total_votes_cast"] = SumOf(calls, "votes")
        /\ Doc["metrics"]["red_flags"] = SumOf(calls, "red_flags")

\* The call that has just returned, in the state it left behind.
Last(op) == returned # <<>> /\ returned[1].op = op

\* C11: update_step called with no state on record raises nothing and leaves
\* a saved state holding the step record of the given step id and the call's
\* votes and red flags in the metrics.
C11_UpdateOnAbsentProceeds ==
    [][(/\ state_file = <<>>
        /\ now' # now
        /\ returned' # <<>>
        /\ returned'[1].op = "update_step") =>
           /\ returned'[1].raised = ""
           /\ state_file' # <<>>
           /\ returned'[1].args.step_id \in DOMAIN Doc'["steps"]
           /\ Doc'["metrics"]["total_votes_cast"] = returned'[1].args.a.votes
           /\ Doc'["metrics"]["red_flags"] = returned'[1].args.a.red_flags]_vars

\* C12: whatever was on record before, the state saved by
\* initialize(total_steps, task_description, k) has status in_progress, no
\* step records, current_step 0, the four metrics at 0, no completed_at, and
\* the given total_steps, task_description and k.
C12_InitializeIsTotal ==
    Last("initialize") =>
        /\ state_file # <<>>
        /\ DOMAIN Doc = {"session_id", "task_description", "total_steps", "k",
                         "started_at", "status", "current_step", "steps", "metrics"}
        /\ Doc["status"] = "in_progress"
        /\ Doc["steps"] = EmptyDict
        /\ Doc["current_step"] = 0
        /\ Doc["metrics"] = [total_votes_cast |-> 0, red_flags |-> 0,
                             completed_steps |-> 0, failed_steps |-> 0]
        /\ Doc["total_steps"] = returned[1].args.total_steps
        /\ Doc["task_description"] = returned[1].args.task_description
        /\ Doc["k"] = returned[1].args.k

\* initialize has just run over a session that had a step recorded.
C12_Witness ==
    /\ Last("initialize")
    /\ Len(metrics_file) >= 1
    /\ Doc["started_at"] >= 2

\* C13: between two initialize calls the status only moves from in_progress
\* to success or to failed; once it is success or failed no update_step and
\* no mark_complete changes it.
C13_StatusTerminal ==
    [][(/\ Initialized
        /\ returned' # <<>>
        /\ returned'[1].op # "initialize"
        /\ Doc'["status"] # Doc["status"]) =>
           /\ Doc["status"] = "in_progress"
           /\ Doc'["status"] \in {"success", "failed"}]_vars

Min(S) == CHOOSE n \in S : \A m \in S : n <= m

\* Steps 1..total_steps with no decided record.
Undecided == {sid \in 1..Doc["total_steps"] : sid \notin DecidedNow}

\* C14: with the step ids within 1..total_steps, whenever get_resume_point
\* returns can_resume true its next_step is the lowest step that is not
\* decided.
C14_NextStepIsFirstUndecided ==
    (/\ Resumed
     /\ Initialized
     /\ DOMAIN Doc["steps"] \subseteq 1..Doc["total_steps"]
     /\ returned[1].val.can_resume) =>
        /\ Undecided # {}
        /\ returned[1].val.next_step = Min(Undecided)

\* C15: metrics.jsonl only grows: an update_step call that saves a step
\* record appends that record and nothing else, and initialize,
\* mark_complete and get_resume_point leave the file as it was.
C15_AuditTrailAppendOnly ==
    [][IF /\ now' # now
          /\ returned' # <<>>
          /\ returned'[1].op = "update_step"
          /\ returned'[1].raised = ""
       THEN metrics_file' =
                Append(metrics_file, Doc'["steps"][returned'[1].args.step_id])
       ELSE metrics_file' = metrics_file]_vars

\* initialize has emptied the state document after an update_step call whose
\* record is still in metrics.jsonl.
C15_Witness ==
    /\ Last("initialize")
    /\ Len(metrics_file) = 1
    /\ metrics_file[1]["status"] = "decided"
    /\ Doc["steps"] = EmptyDict

\* The call a step makes, seen in what it returns.
Calls(op) == result' # <<>> /\ result'[1].op = op

\* C16: check_winner leaves the votes file as it was, for every file and
\* every k, so a second check_winner with the same k returns the same
\* decision; the file changes only when a vote is appended or by clear_votes.
C16_CheckDoesNotMutate ==
    [][/\ Calls("check_winner") => votes_file' = votes_file
       /\ (Checked /\ Calls("check_winner") /\ result'[1].k = result[1].k) =>
              result'[1].ret = result[1].ret
       /\ votes_file' # votes_file =>
              (result' = <<>> \/ Calls("clear_votes"))]_vars

\* A check has decided and the votes it counted are still in the file.
C16_Witness ==
    /\ Checked
    /\ Ret.decided
    /\ votes_file # <<>>
    /\ Ret.votes = Len(FileLines)
    /\ Ret.votes >= 2

\* C17: clear_votes leaves no votes file, whatever was there, and returns
\* cleared also when there was none; a check_winner right after it returns
\* decided false with 0 votes for every k.
C17_ClearEmpties ==
    [][/\ Calls("clear_votes") =>
              /\ votes_file' = <<>>
              /\ result'[1].ret = [cleared |-> TRUE]
       /\ (result # <<>> /\ result[1].op = "clear_votes" /\ Calls("check_winner")) =>
              /\ ~result'[1].ret.decided
              /\ result'[1].ret.votes = 0]_vars

\* clear_votes has just removed a votes file that was there.
C17_Witness ==
    /\ result # <<>>
    /\ result[1].op = "clear_votes"
    /\ result[1].existed
    /\ result[1].ret = [cleared |-> TRUE]
    /\ votes_file = <<>>

\* An update_step call that has saved, seen in the step it makes.
Updates ==
    /\ now' # now
    /\ returned' # <<>>
    /\ returned'[1].op = "update_step"
    /\ returned'[1].raised = ""

\* C18: after update_step(step_id, ...) the record of step_id holds the
\* status, votes, margin, red_flags and winner of this call, the step ids are
\* those there were and step_id, and every other record is as it was.
C18_ReplacesOneRecord ==
    [][Updates =>
          \A a \in {returned'[1].args} :
          \A old \in {Get(Doc, "steps", EmptyDict)} :
          \A new \in {Doc'["steps"]} :
              /\ DOMAIN new = DOMAIN old \cup {a.step_id}
              /\ \A sid \in DOMAIN old \ {a.step_id} : new[sid] = old[sid]
              /\ DOMAIN new[a.step_id] = {"step_id", "status", "votes", "margin",
                                          "red_flags", "winner", "updated_at"}
              /\ new[a.step_id]["step_id"] = a.step_id
              /\ new[a.step_id]["status"] = a.status
              /\ new[a.step_id]["votes"] = a.a.votes
              /\ new[a.step_id]["margin"] = a.a.margin
              /\ new[a.step_id]["red_flags"] = a.a.red_flags
              /\ new[a.step_id]["winner"] = a.a.winner]_vars

\* A step decided with a winner has been recorded again without one.
C18_Witness ==
    /\ Initialized
    /\ Len(calls) = 2
    /\ calls[1]["step_id"] = calls[2]["step_id"]
    /\ calls[1]["winner"] = Winner1
    /\ calls[2]["winner"] = None
    /\ Doc["steps"][calls[2]["step_id"]]["winner"] = None
    /\ Last("update_step")

\* key is in both documents with one value, or in neither.
Kept(key) ==
    /\ key \in DOMAIN Doc <=> key \in DOMAIN Doc'
    /\ key \in DOMAIN Doc => Doc'[key] = Doc[key]

SessionKeys == {"session_id", "task_description", "total_steps", "k", "started_at"}

\* C20: update_step and mark_complete leave session_id, task_description,
\* total_steps, k and started_at as they were; update_step also leaves status
\* and completed_at, and mark_complete also leaves steps, current_step and
\* metrics.
C20_Frame ==
    [][(state_file # <<>> /\ now' # now /\ returned' # <<>>) =>
          /\ returned'[1].op = "update_step" =>
                 /\ state_file' # <<>>
                 /\ \A key \in SessionKeys \cup {"status", "completed_at"} : Kept(key)
          /\ returned'[1].op = "mark_complete" =>
                 /\ state_file' # <<>>
                 /\ \A key \in SessionKeys \cup {"steps", "current_step", "metrics"} :
                        Kept(key)]_vars

\* mark_complete has run on a session with a step recorded.
C20_Witness ==
    /\ Last("mark_complete")
    /\ Initialized
    /\ Len(calls) = 1
    /\ Doc["metrics"]["total_votes_cast"] > 0
    /\ DOMAIN Doc["steps"] # {}
    /\ "completed_at" \in DOMAIN Doc

\* An argument of the call that the functions' contract rules out: a
\* probability or target not in (0, 1), or a count k, s or m below 1.
OutOfDomain(a) ==
    \/ outside_unit(a.p)
    \/ "target" \in DOMAIN a /\ outside_unit(a.target)
    \/ \E key \in {"k", "s", "m"} \cap DOMAIN a : a[key] < 1

\* C19: each of the five functions raises ValueError, and returns no value,
\* when its p or target is not in (0, 1) or its k, s or m is below 1.
C19_DomainErrors ==
    (math # <<>> /\ OutOfDomain(math[1].args)) =>
        /\ math[1].ret.raised = "ValueError"
        /\ "value" \notin DOMAIN math[1].ret

\* The lines of a file with those at i and j exchanged.
Exchanged(lines, i, j) == [lines EXCEPT ![i] = lines[j], ![j] = lines[i]]

\* Two returns of check_winner that agree on decided, votes, margin or
\* leader_count, candidates and k, and on the group of the winner.
SameOutcome(r1, r2) ==
    /\ DOMAIN r1 = DOMAIN r2
    /\ \A key \in DOMAIN r1 \ {"winner"} : r1[key] = r2[key]
    /\ "winner" \in DOMAIN r1 => GroupOfDecoded(r1.winner) = GroupOfDecoded(r2.winner)

\* C21: for every votes file, every order of its lines and every k,
\* check_winner returns the same decided, votes, margin or leader_count and
\* candidates, and a winner of the same (action, result) group; the group of
\* a winner has more records than every other group. Every order of the
\* lines is reached by exchanges of two lines, and the file after an exchange
\* is itself one of the files the property is stated for, so the property is
\* stated for one exchange.
C21_PermutationInvariant ==
    (Checked /\ votes_file # <<>>) =>
        \A lines \in {FileLines} :
        \A gs \in {GroupSeq(lines)} :
            /\ \A i, j \in 1..Len(lines) :
                  i < j =>
                     SameOutcome(check_winner(<<Exchanged(lines, i, j)>>, result[1].k),
                                 Ret)
            /\ Ret.decided =>
                  \A w \in {GroupOfDecoded(Ret.winner)} :
                      /\ Ret.votes = CountOf(gs, w)
                      /\ \A g \in Groups(gs) \ {w} : CountOf(gs, w) > CountOf(gs, g)

\* A check has decided on a file whose first record is not of the winner's
\* group and which holds two records of that group written differently.
C21_Witness ==
    /\ Checked
    /\ Ret.decided
    /\ Ret.candidates = 2
    /\ Len(FileLines) = MaxVotes
    /\ GroupSeq(FileLines)[1] \notin {NoGroup, GroupOfDecoded(Ret.winner)}
    /\ \E i, j \in 1..Len(FileLines) :
          /\ GroupSeq(FileLines)[i] = GroupOfDecoded(Ret.winner)
          /\ GroupSeq(FileLines)[j] = GroupOfDecoded(Ret.winner)
          /\ loads(FileLines[i]) # loads(FileLines[j])

====
